---- MODULE Spec2Model ----
(***************************************************************************)
(* Model of the ingestion pipeline of src/app.py: the corruption detectors *)
(* (is_csv_corrupted, is_zip_corrupted), the feature engine                *)
(* (add_delta_and_oscillator, engineer_features), the row mapper           *)
(* (process_csv) and the batch upload handler (upload_stats) with its      *)
(* database session.                                                       *)
(*                                                                         *)
(* Abstractions                                                            *)
(*  - A CSV byte stream is its sequence of lines; a line is its sequence   *)
(*    of cells.  Stream positions are line boundaries (0 = start).         *)
(*  - A cell value is a tagged record: a number, not-a-number, text, an    *)
(*    oscillator value, a boolean or NULL (attribute never set).           *)
(*  - An oscillator value (x - mean)/(std + 1e-6) over a window of W rows  *)
(*    is kept exactly as the pair d = W*x - S, q = W*SUM(x^2) - S^2 (S the *)
(*    window sum), so that value = (d/W) / (sqrt(q/(W*(W-1))) + 1e-6).     *)
(*  - io.TextIOWrapper closes the stream it wraps when it is finalized.    *)
(*    is_csv_corrupted drops its wrapper on return; when the finalizer     *)
(*    runs is up to the runtime (at once under reference counting, later   *)
(*    or never under a tracing collector), so it is a choice "fin".        *)
(***************************************************************************)
EXTENDS Integers, Sequences, FiniteSets, TLC

----------------------------------------------------------------------------
(* Bounds of the model: rows and bat-speed values of a table (SpecFeat),  *)
(* lines and columns of a stream handed to a detector (SpecDet), files    *)
(* of one request and requests (Spec).                                    *)
MaxRows == 6
MaxVal == 1
MaxLines == 3
MaxCols == 2
MaxFiles == 2
MaxCalls == 2

(* Program constants *)
Window == 5
Threshold == 2

----------------------------------------------------------------------------
(* Cell values *)
Num(n) == [k |-> "num", v |-> n, w |-> 0]
NaN == [k |-> "nan", v |-> 0, w |-> 0]
Txt == [k |-> "txt", v |-> 0, w |-> 0]
Osc(d, q) == [k |-> "osc", v |-> d, w |-> q]
Bool(b) == [k |-> "bool", v |-> IF b THEN 1 ELSE 0, w |-> 0]
NULL == [k |-> "null", v |-> 0, w |-> 0]
Unknown == [k |-> "txt", v |-> 1, w |-> 0]

isna(x) == x.k = "nan"

RECURSIVE SumSeq(_)
SumSeq(s) == IF s = <<>> THEN 0 ELSE s[1] + SumSeq(Tail(s))

----------------------------------------------------------------------------
(* Persisted schema: class Omniscience.  The raw metric columns other than *)
(* avg_bat_speed, and name, are carried exactly like avg_bat_speed; the    *)
(* timestamp is stamped per row and read by no modelled operation.         *)
SchemaCols == {"id", "avg_bat_speed", "delta_bat_speed", "oscillator_bat_speed",
               "cashout_signal", "pick_tracked"}

----------------------------------------------------------------------------
(* Feature engine *)

to_numeric(x) == IF x.k = "num" THEN x ELSE NaN

diff(col, i) ==
    IF i > 1 /\ col[i].k = "num" /\ col[i-1].k = "num"
    THEN Num(col[i].v - col[i-1].v) ELSE NaN

WindowVals(col, i) == [j \in 1..Window |-> col[i - Window + j]]

(* rolling(window) with the default min_periods = window: not-a-number     *)
(* until the window is full and whenever the window holds a not-a-number.  *)
RollingDefined(col, i) ==
    /\ i >= Window
    /\ \A j \in 1..Window : WindowVals(col, i)[j].k = "num"

oscillator(col, i) ==
    IF RollingDefined(col, i)
    THEN LET xs == [j \in 1..Window |-> WindowVals(col, i)[j].v]
             S  == SumSeq(xs)
             S2 == SumSeq([j \in 1..Window |-> xs[j] * xs[j]])
         IN  Osc(Window * col[i].v - S, Window * S2 - S * S)
    ELSE NaN

add_delta_and_oscillator(df, col) ==
    IF col \notin df.cols THEN df
    ELSE LET c == [i \in 1..Len(df.rows) |-> to_numeric(df.rows[i][col])]
             newcols == df.cols \cup {"delta_" \o col, "oscillator_" \o col}
         IN  [cols |-> newcols,
              rows |-> [i \in 1..Len(df.rows) |->
                         [n \in newcols |->
                            IF n = col THEN c[i]
                            ELSE IF n = "delta_" \o col THEN diff(c, i)
                            ELSE IF n = "oscillator_" \o col THEN oscillator(c, i)
                            ELSE df.rows[i][n]]]]

(* o < -Threshold for an oscillator value o = (d/W)/(sqrt(q/(W(W-1)))+eps): *)
(* d/W < -T*sqrt(q/(W(W-1))) - T*eps.  For integer d, q with |d| far below  *)
(* 1/eps this is d < 0 and (W-1)*d^2 > T^2*W*q.  Not-a-number compares     *)
(* false.                                                                  *)
\* Variant: a not-a-number oscillator counts as below the threshold.
LtMinusThresholdMutant(o) ==
    \/ o.k # "osc"
    \/ o.v < 0 /\ (Window - 1) * o.v * o.v > Threshold * Threshold * Window * o.w

LtMinusThreshold(o) ==
    /\ o.k = "osc"
    /\ o.v < 0
    /\ (Window - 1) * o.v * o.v > Threshold * Threshold * Window * o.w

engineer_features(df) ==
    LET d1 == add_delta_and_oscillator(df, "avg_bat_speed")
        c2 == IF "oscillator_avg_bat_speed" \in d1.cols
              THEN d1.cols \cup {"cashout_signal"} ELSE d1.cols
        c3 == c2 \cup {"pick_tracked"}
    IN  [cols |-> c3,
         rows |-> [i \in 1..Len(d1.rows) |->
                    [n \in c3 |->
                       IF n = "pick_tracked" THEN Bool(TRUE)
                       ELSE IF n = "cashout_signal" /\ "oscillator_avg_bat_speed" \in d1.cols
                            THEN Bool(LtMinusThreshold(d1.rows[i]["oscillator_avg_bat_speed"]))
                       ELSE d1.rows[i][n]]]]

----------------------------------------------------------------------------
(* CSV streams.  head holds the header line when the file has one (a       *)
(* sequence of column names, empty for a blank line); body holds the lines *)
(* after it (sequences of cells, empty for a blank line).  bad is the      *)
(* number of the line holding bytes that are not UTF-8, 0 when there is    *)
(* none.                                                                   *)
NLines(c) == Len(c.head) + Len(c.body)

LineLen(c, i) == IF i = 1 THEN Len(c.head[1]) ELSE Len(c.body[i-1])

NoReason == [msg |-> "None", h |-> 0, r |-> 0]
Reason(m) == [msg |-> m, h |-> 0, r |-> 0]
CountsReason(h, r) == [msg |-> "Header has h columns, row has r", h |-> h, r |-> r]

(* The result carries, besides the returned pair, the stream as the call   *)
(* leaves it: pos is the read position, closed whether the dropped         *)
(* TextIOWrapper has closed the stream (fin).  The reader decodes a whole  *)
(* chunk from pos on, so an undecodable line after pos raises.             *)
\* Variant: the column counts of the two lines are not compared.
is_csv_corruptedMutant(c, pos, fin) ==
    IF c.bad > pos
    THEN [corrupted |-> TRUE, reason |-> Reason("codec can't decode"), pos |-> 0, closed |-> fin]
    ELSE LET hasHeader == pos + 1 <= NLines(c)
             hasRow == pos + 2 <= NLines(c)
         IN  IF ~hasHeader \/ ~hasRow
                THEN [corrupted |-> TRUE, reason |-> Reason("Empty or missing data"),
                      pos |-> pos, closed |-> fin]
             ELSE [corrupted |-> FALSE, reason |-> NoReason, pos |-> pos, closed |-> fin]

is_csv_corrupted(c, pos, fin) ==
    IF c.bad > pos
    THEN [corrupted |-> TRUE, reason |-> Reason("codec can't decode"), pos |-> 0, closed |-> fin]
    ELSE LET hasHeader == pos + 1 <= NLines(c)
             hasRow == pos + 2 <= NLines(c)
             h == IF hasHeader THEN LineLen(c, pos + 1) ELSE 0
             r == IF hasRow THEN LineLen(c, pos + 2) ELSE 0
         IN  IF ~hasHeader \/ h = 0 \/ ~hasRow \/ r = 0
                THEN [corrupted |-> TRUE, reason |-> Reason("Empty or missing data"),
                      pos |-> pos, closed |-> fin]
             ELSE IF h # r
                THEN [corrupted |-> TRUE, reason |-> CountsReason(h, r),
                      pos |-> pos, closed |-> fin]
             ELSE [corrupted |-> FALSE, reason |-> NoReason, pos |-> pos, closed |-> fin]

(* ZIP streams.  ok: the bytes are a readable archive; lead: the number of *)
(* bytes in front of the archive, where its (empty) central directory      *)
(* starts; entries: the members in archive order.  zipf.getinfo of a name  *)
(* taken from zipf.namelist() always succeeds, so that branch returns      *)
(* nothing.  ZipFile does not close a file object passed to it.            *)
is_zip_corrupted(z, pos) ==
    IF ~z.ok
    THEN [corrupted |-> TRUE, reason |-> Reason("Bad ZIP file"), pos |-> 0, closed |-> FALSE]
    ELSE IF z.entries = <<>>
    THEN [corrupted |-> TRUE, reason |-> Reason("ZIP is empty"), pos |-> z.lead, closed |-> FALSE]
    ELSE [corrupted |-> FALSE, reason |-> NoReason, pos |-> pos, closed |-> FALSE]

----------------------------------------------------------------------------
(* Tabular parser: pd.read_csv.  Blank lines are skipped, a short line is  *)
(* padded with not-a-number, a line with more fields than the header       *)
(* raises, as do undecodable bytes and a stream without a header.          *)
NonBlank(body) == SelectSeq(body, LAMBDA l : l # <<>>)

read_csv(c) ==
    IF \/ c.head = <<>>
       \/ c.bad > 0
       \/ \E i \in 1..Len(c.body) : Len(c.body[i]) > Len(c.head[1])
    THEN [raised |-> TRUE, df |-> [cols |-> {}, rows |-> <<>>]]
    ELSE LET hd == c.head[1]
             names == {hd[j] : j \in 1..Len(hd)}
             lines == NonBlank(c.body)
             idx(n) == CHOOSE j \in 1..Len(hd) : hd[j] = n
         IN  [raised |-> FALSE,
              df |-> [cols |-> names,
                      rows |-> [i \in 1..Len(lines) |->
                                 [n \in names |->
                                    IF idx(n) <= Len(lines[i]) THEN lines[i][idx(n)] ELSE NaN]]]]

----------------------------------------------------------------------------
(* Record mapper: the loop of process_csv over the enriched table.         *)
get(df, row, col, default) == IF col \in df.cols THEN row[col] ELSE default

RowData(df, row) ==
    [col \in SchemaCols |-> IF col \in df.cols /\ ~isna(row[col]) THEN row[col] ELSE NULL]

RowSummary(df, row) ==
    [id |-> get(df, row, "id", Unknown),
     avg_bat_speed |-> get(df, row, "avg_bat_speed", NULL),
     cashout_signal |-> get(df, row, "cashout_signal", Bool(FALSE)),
     oscillator_bat_speed |-> get(df, row, "oscillator_avg_bat_speed", NULL)]

(* failAt = k > 0: building the Record of row k raises; rows 1..k-1 have   *)
(* been added to the session and stay there, the local result list is      *)
(* lost with the exception.                                                *)
MapRows(df, failAt) ==
    LET n == Len(df.rows)
        last == IF failAt \in 1..n THEN failAt - 1 ELSE n
    IN  [raised |-> failAt \in 1..n,
         staged |-> [i \in 1..last |-> RowData(df, df.rows[i])],
         results |-> IF failAt \in 1..n THEN <<>>
                     ELSE [i \in 1..n |-> RowSummary(df, df.rows[i])]]

process_csv(c, failAt) ==
    LET t == read_csv(c)
    IN  IF t.raised THEN [raised |-> TRUE, staged |-> <<>>, results |-> <<>>]
        ELSE MapRows(engineer_features(t.df), failAt)

----------------------------------------------------------------------------
VARIABLES
    dFile, dKind, dPos0, dStage, dRes,       \* a detector call on one stream
    fCsv, fStage, fDf, fOut,                 \* one table through parse/enrich/map
    pc, remaining, alerts, results,          \* upload_stats: the request in progress
    pending,                                 \* db.session: objects added, not yet committed
    db,                                      \* the persisted table, in insert order
    status, commitErr,                       \* the response and why the commit failed
    calls, commits, staged, last             \* history: requests so far, commits and
                                             \* session.add calls of this request, and
                                             \* what the last loop iteration did

detVars == <<dFile, dKind, dPos0, dStage, dRes>>
featVars == <<fCsv, fStage, fDf, fOut>>
upVars == <<pc, remaining, alerts, results, pending, db, status, commitErr,
            calls, commits, staged, last>>
vars == <<dFile, dKind, dPos0, dStage, dRes, fCsv, fStage, fDf, fOut,
          pc, remaining, alerts, results, pending, db, status, commitErr,
          calls, commits, staged, last>>

NoCsv == [head |-> <<>>, body |-> <<>>, bad |-> 0]
NoDf == [cols |-> {}, rows |-> <<>>]
NoRes == [corrupted |-> FALSE, reason |-> NoReason, pos |-> 0, closed |-> FALSE]
NoOut == [raised |-> FALSE, staged |-> <<>>, results |-> <<>>]

DetIdle == dFile = NoCsv /\ dKind = "none" /\ dPos0 = 0 /\ dStage = "idle" /\ dRes = NoRes
FeatIdle == fCsv = NoCsv /\ fStage = "idle" /\ fDf = NoDf /\ fOut = NoOut
NoZip == [ok |-> FALSE, lead |-> 0, entries |-> <<>>]
NoFile == [name |-> "", ext |-> "", csv |-> NoCsv, zip |-> NoZip]
NoLast == [op |-> "none", file |-> NoFile, alerts |-> <<>>, results |-> <<>>,
           staged |-> <<>>, env |-> FALSE]

UpIdle ==
    /\ pc = "idle" /\ remaining = 0 /\ alerts = <<>> /\ results = <<>>
    /\ pending = <<>> /\ db = <<>> /\ status = 0 /\ commitErr = "none"
    /\ calls = 0 /\ commits = 0 /\ staged = <<>> /\ last = NoLast

----------------------------------------------------------------------------
(* Streams handed to the detectors: every shape of up to MaxLines lines of *)
(* up to MaxCols columns, with or without an undecodable line.             *)
ColNames == <<"id", "avg_bat_speed", "name">>
HeaderOf(n) == [j \in 1..n |-> ColNames[j]]
LineOf(n) == [j \in 1..n |-> Num(j)]

RECURSIVE SeqsUpTo(_, _)
SeqsUpTo(S, n) ==
    IF n = 0 THEN {<<>>}
    ELSE LET shorter == SeqsUpTo(S, n - 1)
         IN  shorter \cup {Append(s, x) : s \in {t \in shorter : Len(t) = n - 1}, x \in S}

DetCsvs ==
    {NoCsv} \cup
    {[head |-> <<HeaderOf(h)>>, body |-> b, bad |-> e] :
        h \in 0..MaxCols,
        b \in SeqsUpTo({LineOf(n) : n \in 0..MaxCols}, MaxLines - 1),
        e \in 0..1}

DetZips ==
    {[ok |-> o, lead |-> l, entries |-> es] :
        o \in BOOLEAN, l \in 0..1,
        es \in {<<>>, <<[name |-> "a", ext |-> "csv", csv |-> NoCsv]>>}}

DetInit ==
    /\ \/ dKind = "csv" /\ dFile \in DetCsvs /\ dPos0 \in 0..NLines(dFile)
       \/ dKind = "zip" /\ dFile \in DetZips /\ dPos0 \in 0..1
    /\ dStage = "ready" /\ dRes = NoRes
    /\ FeatIdle /\ UpIdle

DetCheckCsv ==
    /\ dStage = "ready" /\ dKind = "csv"
    /\ \E fin \in BOOLEAN : dRes' = is_csv_corrupted(dFile, dPos0, fin)
    /\ dStage' = "returned"
    /\ UNCHANGED <<dFile, dKind, dPos0, featVars, upVars>>

DetCheckZip ==
    /\ dStage = "ready" /\ dKind = "zip"
    /\ dRes' = is_zip_corrupted(dFile, dPos0)
    /\ dStage' = "returned"
    /\ UNCHANGED <<dFile, dKind, dPos0, featVars, upVars>>

DetNext == DetCheckCsv \/ DetCheckZip

SpecDet == DetInit /\ [][DetNext]_vars

----------------------------------------------------------------------------
(* Tables handed to the parse/enrich/map pipeline: up to MaxRows rows of   *)
(* bat speeds (numbers 0..MaxVal or text), with or without an id column,   *)
(* or an id column alone.                                                  *)
SpeedVals == {Num(v) : v \in 0..MaxVal} \cup {Txt}

FeatCsvs ==
    {[head |-> <<hd>>,
      body |-> [i \in 1..Len(sp) |->
                  IF hd = <<"avg_bat_speed">> THEN <<sp[i]>>
                  ELSE IF hd = <<"id">> THEN <<Num(i)>>
                  ELSE <<Num(i), sp[i]>>],
      bad |-> 0] :
        hd \in {<<"avg_bat_speed">>, <<"id", "avg_bat_speed">>},
        sp \in SeqsUpTo(SpeedVals, MaxRows)}
    \cup
    {[head |-> <<(<<"id">>)>>, body |-> [i \in 1..n |-> <<Num(i)>>], bad |-> 0] : n \in 1..2}

FeatInit ==
    /\ fCsv \in FeatCsvs /\ fStage = "file" /\ fDf = NoDf /\ fOut = NoOut
    /\ DetIdle /\ UpIdle

FeatRead ==
    /\ fStage = "file"
    /\ ~read_csv(fCsv).raised
    /\ fDf' = read_csv(fCsv).df
    /\ fStage' = "parsed"
    /\ UNCHANGED <<fCsv, fOut, detVars, upVars>>

FeatEngineer ==
    /\ fStage = "parsed"
    /\ fDf' = engineer_features(fDf)
    /\ fStage' = "engineered"
    /\ UNCHANGED <<fCsv, fOut, detVars, upVars>>

FeatMap ==
    /\ fStage = "engineered"
    /\ \E failAt \in 0..Len(fDf.rows) : fOut' = MapRows(fDf, failAt)
    /\ fStage' = "mapped"
    /\ UNCHANGED <<fCsv, fDf, detVars, upVars>>

FeatNext == FeatRead \/ FeatEngineer \/ FeatMap

SpecFeat == FeatInit /\ [][FeatNext]_vars

----------------------------------------------------------------------------
(* Database session and storage.                                           *)
(* A persisted row is [f |-> the column values, call |-> the request that  *)
(* committed it].  The primary key of a row whose id attribute was never   *)
(* set is assigned by storage (largest id so far plus one); an id that was *)
(* set is inserted as given.  Unset booleans take the column default.      *)
RECURSIVE MaxId(_)
MaxId(tbl) ==
    IF tbl = <<>> THEN 0
    ELSE LET m == MaxId(Tail(tbl))
             i == tbl[1].f["id"].v
         IN  IF i > m THEN i ELSE m

WithDefaults(data, id) ==
    [col \in SchemaCols |->
        IF col = "id" THEN Num(id)
        ELSE IF col \in {"cashout_signal", "pick_tracked"} /\ data[col] = NULL THEN Bool(FALSE)
        ELSE data[col]]

(* flush: INSERT the pending objects in the order they were added *)
RECURSIVE Insert(_, _, _)
Insert(tbl, pend, call) ==
    IF pend = <<>> THEN [ok |-> TRUE, db |-> tbl]
    ELSE LET data == pend[1]
             given == data["id"]
         IN  IF given = NULL
                THEN Insert(Append(tbl, [f |-> WithDefaults(data, MaxId(tbl) + 1), call |-> call]),
                            Tail(pend), call)
             ELSE IF given.k = "num" /\ \A j \in 1..Len(tbl) : tbl[j].f["id"].v # given.v
                THEN Insert(Append(tbl, [f |-> WithDefaults(data, given.v), call |-> call]),
                            Tail(pend), call)
             ELSE [ok |-> FALSE, db |-> tbl]

(* db.session.commit() and, when it raises, db.session.rollback().         *)
(* storageOk = FALSE: storage rejects the write for a reason of its own;   *)
(* a commit with nothing pending emits no statement and cannot fail.       *)
\* Variant: a failed commit keeps the rows inserted before the failure.
commitMutant(tbl, pend, call, storageOk) ==
    LET r == Insert(tbl, pend, call)
    IN  IF r.ok /\ (storageOk \/ pend = <<>>)
        THEN [ok |-> TRUE, err |-> "none", db |-> r.db]
        ELSE [ok |-> FALSE, err |-> IF r.ok THEN "storage" ELSE "integrity", db |-> r.db]

commit(tbl, pend, call, storageOk) ==
    LET r == Insert(tbl, pend, call)
    IN  IF r.ok /\ (storageOk \/ pend = <<>>)
        THEN [ok |-> TRUE, err |-> "none", db |-> r.db]
        ELSE [ok |-> FALSE, err |-> IF r.ok THEN "storage" ELSE "integrity", db |-> tbl]

----------------------------------------------------------------------------
(* Uploaded files (request.files.getlist('files')), names already passed   *)
(* through secure_filename.                                                *)
CsvValidId == [head |-> << <<"id", "avg_bat_speed">> >>,
               body |-> << <<Num(1), Num(1)>>, <<Num(2), Num(2)>> >>, bad |-> 0]
CsvValid == [head |-> << <<"avg_bat_speed">> >>, body |-> << <<Num(1)>> >>, bad |-> 0]
CsvMismatch == [head |-> << <<"id", "avg_bat_speed">> >>, body |-> << <<Num(1)>> >>, bad |-> 0]
CsvBlankRow == [head |-> << <<"avg_bat_speed">> >>, body |-> << <<>>, <<Num(1)>> >>, bad |-> 0]
CsvRagged == [head |-> << <<"avg_bat_speed">> >>,
              body |-> << <<Num(1)>>, <<Num(1), Num(2)>> >>, bad |-> 0]
CsvUndecodable == [head |-> << <<"avg_bat_speed">> >>, body |-> << <<Num(1)>> >>, bad |-> 1]

UpCsvs == {CsvValidId, CsvValid, CsvMismatch, CsvBlankRow, CsvRagged, CsvUndecodable}

BadEntry == [name |-> "bad", ext |-> "csv", csv |-> CsvMismatch]
GoodEntry == [name |-> "good", ext |-> "csv", csv |-> CsvValidId]
NotesEntry == [name |-> "notes", ext |-> "txt", csv |-> NoCsv]

UpZips ==
    {[ok |-> FALSE, lead |-> 0, entries |-> <<>>],          \* not an archive
     [ok |-> TRUE, lead |-> 0, entries |-> <<>>],           \* an archive without members
     [ok |-> TRUE, lead |-> 0, entries |-> <<BadEntry, GoodEntry>>],
     [ok |-> TRUE, lead |-> 0, entries |-> <<GoodEntry, BadEntry>>],
     [ok |-> TRUE, lead |-> 0, entries |-> <<NotesEntry, BadEntry>>]}

CsvFiles == {[name |-> "stats", ext |-> "csv", csv |-> c, zip |-> NoZip] : c \in UpCsvs}
ZipFiles == {[name |-> "pack", ext |-> "zip", csv |-> NoCsv, zip |-> z] : z \in UpZips}
OtherFiles == {[name |-> "readme", ext |-> "txt", csv |-> NoCsv, zip |-> NoZip]}

Alert(kind, name, reason) == [kind |-> kind, name |-> name, reason |-> reason]

----------------------------------------------------------------------------
(* upload_stats *)

\* One member of the archive: lines 128-138.
EntryStep(e, fin, failAt) ==
    LET none == [alerts |-> <<>>, results |-> <<>>, staged |-> <<>>, env |-> FALSE]
        chk == is_csv_corrupted(e.csv, 0, fin)
        r == process_csv(e.csv, failAt)
    IN  IF e.ext # "csv" THEN none
        ELSE IF chk.corrupted
            THEN [none EXCEPT !.alerts = <<Alert("Corrupted CSV in ZIP", e.name, chk.reason)>>]
        ELSE IF chk.closed      \* csvfile.seek(0) on the closed member raises ValueError
            THEN [none EXCEPT !.alerts =
                    <<Alert("Error processing", e.name, Reason("seek on closed file"))>>]
        ELSE IF r.raised
            THEN [alerts |-> <<Alert("Error processing", e.name, Reason("Error processing"))>>,
                  results |-> <<>>, staged |-> r.staged, env |-> ~read_csv(e.csv).raised]
        ELSE [alerts |-> <<>>, results |-> r.results, staged |-> r.staged, env |-> FALSE]

RECURSIVE ZipLoop(_, _, _, _)
ZipLoop(es, i, fins, fails) ==
    IF i > Len(es) THEN [alerts |-> <<>>, results |-> <<>>, staged |-> <<>>, env |-> FALSE]
    ELSE LET one == EntryStep(es[i], fins[i], fails[i])
             rest == ZipLoop(es, i + 1, fins, fails)
         IN  [alerts |-> one.alerts \o rest.alerts,
              results |-> one.results \o rest.results,
              staged |-> one.staged \o rest.staged,
              env |-> one.env \/ rest.env]

UpInit == DetIdle /\ FeatIdle /\ UpIdle

\* line 108: the request carries no 'files' part
NoFilesProvided ==
    /\ pc = "idle" /\ calls < MaxCalls
    /\ calls' = calls + 1
    /\ status' = 400
    /\ alerts' = <<>> /\ results' = <<>> /\ pending' = <<>> /\ staged' = <<>>
    /\ commits' = 0 /\ commitErr' = "none" /\ last' = NoLast /\ remaining' = 0
    /\ UNCHANGED <<pc, db, detVars, featVars>>

\* lines 110-113: a request with n files enters the loop
Begin ==
    /\ pc = "idle" /\ calls < MaxCalls
    /\ calls' = calls + 1
    /\ \E n \in 1..MaxFiles : remaining' = n
    /\ status' = 0
    /\ alerts' = <<>> /\ results' = <<>> /\ pending' = <<>> /\ staged' = <<>>
    /\ commits' = 0 /\ commitErr' = "none" /\ last' = NoLast
    /\ pc' = "loop"
    /\ UNCHANGED <<db, detVars, featVars>>

\* lines 115-116
SkipEmptyName ==
    /\ pc = "loop" /\ remaining > 0
    /\ remaining' = remaining - 1
    /\ last' = [NoLast EXCEPT !.op = "skip"]
    /\ UNCHANGED <<pc, alerts, results, pending, db, status, commitErr, calls, commits,
                   staged, detVars, featVars>>

\* lines 119-140: what one .zip upload adds to the alerts, the results and
\* the session
ZipOutcome(file, fins, fails) ==
    LET chk == is_zip_corrupted(file.zip, 0)
        z == ZipLoop(file.zip.entries, 1, fins, fails)
    IN  IF chk.corrupted
        THEN [NoLast EXCEPT !.op = "zip", !.file = file,
                            !.alerts = <<Alert("Corrupted ZIP", file.name, chk.reason)>>]
        ELSE [op |-> "zip", file |-> file, alerts |-> z.alerts, results |-> z.results,
              staged |-> z.staged, env |-> z.env]

\* the rows at which mapping a member may raise: none (0) or any of its rows
FailPoints(es) ==
    {f \in [1..Len(es) -> 0..MaxRows] : \A i \in 1..Len(es) : f[i] <= Len(es[i].csv.body)}

ZipOutcomes ==
    UNION {{ZipOutcome(file, fins, fails) :
                fins \in [1..Len(file.zip.entries) -> BOOLEAN],
                fails \in FailPoints(file.zip.entries)} : file \in ZipFiles}

HandleZip ==
    /\ pc = "loop" /\ remaining > 0
    /\ \E o \in ZipOutcomes :
         /\ alerts' = alerts \o o.alerts
         /\ results' = results \o o.results
         /\ pending' = pending \o o.staged
         /\ staged' = staged \o o.staged
         /\ last' = o
    /\ remaining' = remaining - 1
    /\ UNCHANGED <<pc, db, status, commitErr, calls, commits, detVars, featVars>>

\* lines 141-147: what one .csv upload does; raised: line 146 or 147 raised
\* and the exception leaves the loop for the handler of lines 157-159
CsvOutcome(file, fin, failAt) ==
    LET chk == is_csv_corrupted(file.csv, 0, fin)
        r == process_csv(file.csv, failAt)
        base == [NoLast EXCEPT !.op = "csv", !.file = file]
    IN  IF chk.corrupted
        THEN [raised |-> FALSE,
              out |-> [base EXCEPT !.alerts = <<Alert("Corrupted CSV", file.name, chk.reason)>>]]
        ELSE IF chk.closed     \* file_obj.seek(0) on the closed stream raises ValueError
        THEN [raised |-> TRUE, out |-> base]
        ELSE IF r.raised
        THEN [raised |-> TRUE,
              out |-> [base EXCEPT !.staged = r.staged, !.env = ~read_csv(file.csv).raised]]
        ELSE [raised |-> FALSE, out |-> [base EXCEPT !.results = r.results, !.staged = r.staged]]

CsvOutcomes ==
    UNION {{CsvOutcome(file, fin, failAt) : fin \in BOOLEAN, failAt \in 0..Len(file.csv.body)} :
              file \in CsvFiles}

HandleCsv ==
    /\ pc = "loop" /\ remaining > 0
    /\ \E o \in CsvOutcomes :
         /\ last' = o.out
         /\ staged' = staged \o o.out.staged
         /\ IF o.raised
            THEN /\ pending' = <<>>          \* db.session.rollback()
                 /\ status' = 500
                 /\ pc' = "idle"
                 /\ UNCHANGED <<alerts, results, remaining>>
            ELSE /\ alerts' = alerts \o o.out.alerts
                 /\ results' = results \o o.out.results
                 /\ pending' = pending \o o.out.staged
                 /\ remaining' = remaining - 1
                 /\ UNCHANGED <<pc, status>>
    /\ UNCHANGED <<db, commitErr, calls, commits, detVars, featVars>>

\* lines 148-149
HandleOther ==
    /\ pc = "loop" /\ remaining > 0
    /\ \E file \in OtherFiles :
         LET a == <<Alert("Unsupported file type", file.name, NoReason)>>
         IN  /\ alerts' = alerts \o a
             /\ last' = [NoLast EXCEPT !.op = "other", !.file = file, !.alerts = a]
    /\ remaining' = remaining - 1
    /\ UNCHANGED <<pc, results, pending, db, status, commitErr, calls, commits, staged,
                   detVars, featVars>>

\* lines 150-159
Commit ==
    /\ pc = "loop" /\ remaining = 0
    /\ \E storageOk \in BOOLEAN :
         LET c == commit(db, pending, calls, storageOk)
         IN  /\ db' = c.db
             /\ commitErr' = c.err
             /\ status' = IF c.ok THEN 200 ELSE 500
    /\ commits' = commits + 1
    /\ pending' = <<>>
    /\ pc' = "idle"
    /\ last' = [NoLast EXCEPT !.op = "commit"]
    /\ UNCHANGED <<remaining, alerts, results, calls, staged, detVars, featVars>>

Next ==
    \/ NoFilesProvided
    \/ Begin
    \/ SkipEmptyName
    \/ HandleZip
    \/ HandleCsv
    \/ HandleOther
    \/ Commit

Spec == UpInit /\ [][Next]_vars

(* The upload handler together with the detector on streams of every shape *)
IngestInit == UpInit \/ DetInit
IngestNext == (dStage = "idle" /\ Next) \/ DetNext
SpecIngest == IngestInit /\ [][IngestNext]_vars

----------------------------------------------------------------------------
(* Properties *)

PersistedBy(call) == SelectSeq(db, LAMBDA r : r.call = call)

\* C1: upload_stats answers with the server error only when the final
\* commit failed; a failure of one file is an alert and the loop goes on.
C1_ServerErrorOnlyOnCommitFailure ==
    status = 500 => commits = 1

\* C2: a request commits at most once and only after the last file; on
\* success exactly the Records staged by the request are persisted, in
\* order, and otherwise none of them is.
C2_SingleAtomicCommit ==
    /\ commits <= 1
    /\ commits = 1 => remaining = 0 /\ pc = "idle"
    /\ pending # <<>> => pc = "loop" /\ commits = 0
    /\ status = 200 =>
          /\ commits = 1
          /\ Len(PersistedBy(calls)) = Len(staged)
          /\ \A i \in 1..Len(staged) :
                \A col \in {"avg_bat_speed", "delta_bat_speed", "oscillator_bat_speed"} :
                    PersistedBy(calls)[i].f[col] = staged[i][col]
    /\ status # 200 => PersistedBy(calls) = <<>>

C2_Witness ==
    status = 500 /\ commits = 1 /\ commitErr = "integrity" /\ Len(staged) >= 2 /\ db # <<>>

\* C3: the id column of an upload never becomes the Record's id, and no
\* commit fails on an id collision.
C3_IdAssignedByStorage ==
    /\ \A i \in 1..Len(staged) : staged[i]["id"] = NULL
    /\ commitErr # "integrity"

\* C4: the Record staged for a row of a table with avg_bat_speed carries the
\* row's delta and oscillator (when numbers), cashout_signal and pick_tracked.
C4_RecordCarriesDerived ==
    fStage = "mapped" /\ "avg_bat_speed" \in fDf.cols =>
        \A i \in 1..Len(fOut.staged) :
            LET row == fDf.rows[i]
                rec == fOut.staged[i]
            IN  /\ row["delta_avg_bat_speed"].k = "num"
                      => rec["delta_bat_speed"] = row["delta_avg_bat_speed"]
                /\ row["oscillator_avg_bat_speed"].k = "osc"
                      => rec["oscillator_bat_speed"] = row["oscillator_avg_bat_speed"]
                /\ rec["cashout_signal"] = row["cashout_signal"]
                /\ rec["pick_tracked"] = row["pick_tracked"]

\* C5: on a CSV whose header and first data line exist with the same column
\* count, from any start position, is_csv_corrupted answers (not corrupted,
\* no reason) and leaves the stream open at the start position.
C5_ValidCsvPositionUnchanged ==
    /\ dStage = "returned" /\ dKind = "csv" /\ dFile.bad = 0
    /\ NLines(dFile) >= 2 /\ LineLen(dFile, 1) = LineLen(dFile, 2) /\ LineLen(dFile, 1) >= 1
    => /\ ~dRes.corrupted /\ dRes.reason = NoReason
       /\ dRes.pos = dPos0 /\ ~dRes.closed

\* C6: whenever a detector reports corruption the cursor is at position 0.
C6_CorruptedResetsCursor ==
    dStage = "returned" /\ dRes.corrupted => dRes.pos = 0

\* C7 (as claimed): a header whose column count differs from the first data
\* line's, a line of zero columns included, is reported with both counts,
\* and a standalone upload of it yields that single alert and no summary.
C7_Differs(c) == c.bad = 0 /\ NLines(c) >= 2 /\ LineLen(c, 1) # LineLen(c, 2)
C7_Reported(c, res) ==
    res.corrupted /\ res.reason = CountsReason(LineLen(c, 1), LineLen(c, 2))
C7_OneAlert(file) ==
    /\ last.alerts = <<Alert("Corrupted CSV", file.name,
                             CountsReason(LineLen(file.csv, 1), LineLen(file.csv, 2)))>>
    /\ last.results = <<>>
    /\ last.staged = <<>>

C7_MismatchNamesBothCounts ==
    /\ dStage = "returned" /\ dKind = "csv" /\ dPos0 = 0 /\ C7_Differs(dFile)
          => C7_Reported(dFile, dRes)
    /\ last.op = "csv" /\ C7_Differs(last.file.csv) => C7_OneAlert(last.file)

\* C7 (amended): the same for a header and a first data line that both have
\* at least one column; a line of zero columns is "Empty or missing data".
C7_NonBlank(c) == LineLen(c, 1) >= 1 /\ LineLen(c, 2) >= 1

C7_MismatchOfNonBlankLines ==
    /\ dStage = "returned" /\ dKind = "csv" /\ dPos0 = 0 /\ C7_Differs(dFile) =>
          IF C7_NonBlank(dFile) THEN C7_Reported(dFile, dRes)
          ELSE dRes.corrupted /\ dRes.reason = Reason("Empty or missing data")
    /\ last.op = "csv" /\ C7_Differs(last.file.csv) /\ C7_NonBlank(last.file.csv)
          => C7_OneAlert(last.file) /\ pc = "loop"

C7_Witness ==
    /\ last.op = "csv" /\ last.file.csv = CsvMismatch
    /\ Len(last.alerts) = 1 /\ last.alerts[1].reason = CountsReason(2, 1)

\* C8: a readable ZIP of one corrupt and one valid .csv member, in either
\* order, yields the single alert of the corrupt member and the summaries of
\* the valid one.
C8_Corrupt(c) == is_csv_corrupted(c, 0, FALSE).corrupted
C8_Valid(c) == ~C8_Corrupt(c) /\ ~read_csv(c).raised

C8_CorruptEntryDoesNotStopZip ==
    /\ last.op = "zip" /\ last.file.zip.ok /\ Len(last.file.zip.entries) = 2 /\ ~last.env
    => \A i, j \in 1..2 :
          LET bad == last.file.zip.entries[i]
              good == last.file.zip.entries[j]
          IN  /\ i # j /\ bad.ext = "csv" /\ good.ext = "csv"
              /\ C8_Corrupt(bad.csv) /\ C8_Valid(good.csv)
              => /\ last.alerts = <<Alert("Corrupted CSV in ZIP", bad.name,
                                          is_csv_corrupted(bad.csv, 0, FALSE).reason)>>
                 /\ last.results = process_csv(good.csv, 0).results

\* C9: after engineer_features on a table with avg_bat_speed, cashout_signal
\* is true exactly on the rows whose oscillator is a number below -2.0,
\* false where it is not-a-number (every row of a table of fewer than 5
\* rows), and pick_tracked is true on every row.
C9_BelowMinusTwo(o) ==
    /\ o.k = "osc"
    /\ o.v < 0
    /\ 4 * (o.v * o.v) > 4 * 5 * o.w      \* (d/5)^2 > 4 * q/20, d < 0

C9_CashoutIffOscillatorBelowThreshold ==
    fStage \in {"engineered", "mapped"} /\ "avg_bat_speed" \in fDf.cols =>
        \A i \in 1..Len(fDf.rows) :
            LET row == fDf.rows[i]
                o == row["oscillator_avg_bat_speed"]
            IN  /\ o.k \in {"osc", "nan"}
                /\ row["cashout_signal"] = Bool(C9_BelowMinusTwo(o))
                /\ Len(fDf.rows) < 5 => o = NaN /\ row["cashout_signal"] = Bool(FALSE)
                /\ row["pick_tracked"] = Bool(TRUE)

C9_Witness ==
    /\ fStage = "engineered" /\ Len(fDf.rows) >= 5
    /\ \E i, j \in 1..Len(fDf.rows) :
          /\ fDf.rows[i]["oscillator_avg_bat_speed"].k = "osc"
          /\ fDf.rows[i]["oscillator_avg_bat_speed"].v < 0
          /\ fDf.rows[i]["cashout_signal"] = Bool(FALSE)
          /\ fDf.rows[j]["oscillator_avg_bat_speed"] = NaN
          /\ fDf.rows[j]["cashout_signal"] = Bool(FALSE)

\* C10: on success the Records persisted by the request are one-to-one with
\* the row summaries returned.
C10_PersistedMatchSummaries ==
    status = 200 => Len(PersistedBy(calls)) = Len(results)

====
